---- MODULE Spec2Model ----
(***************************************************************************)
(* Model of the music bot: the two programs of the repository,             *)
(*   main.py   (per-user result cache, download to the temp directory,     *)
(*              file removed after the send), and                          *)
(*   main3.py  (per-chat result cache, group gate, retry decorator,        *)
(*              download thread with a 180 s join, on-disk file cache).    *)
(* The variable prog says which of the two programs is running.            *)
(*                                                                         *)
(* Both programs build the Application with its defaults, so updates are   *)
(* handled one after another: a new event is dispatched only when the      *)
(* previous handler has returned or raised.  A handler is split only at    *)
(* its blocking network calls (provider search, media download, thread     *)
(* join, audio upload); everything between two such calls is one step.     *)
(* Short text replies are taken to succeed; the audio upload may fail.     *)
(* The download threads of main3.py outlive the handler that started them  *)
(* when the join times out, and run concurrently with later handlers.      *)
(***************************************************************************)
EXTENDS Integers, Sequences, FiniteSets, TLC

VARIABLES prog, user_song_data, group_song_data, files, threads,
          ev, pc, retries, sel, result, out, events

vars == <<prog, user_song_data, group_song_data, files, threads,
          ev, pc, retries, sel, result, out, events>>

----------------------------------------------------------------------------
(* Bounds of the model: the size of the provider's catalogue, the largest  *)
(* index a callback may carry, the size of the thread table, and the       *)
(* number of events dispatched in a run.                                   *)

NumTracks == 4
MaxIndex == 3
MaxThreads == 2
MaxEvents == 3

(* Program constants *)

ALLOWED_CHAT_ID == 1
TARGET_GROUP_CHAT_ID == 1
max_retries == 3
DisplayLimit == 3

----------------------------------------------------------------------------
(* Inputs *)

Users == {1, 2}
OtherChat == TARGET_GROUP_CHAT_ID + 1
Chats == {TARGET_GROUP_CHAT_ID, OtherChat}
Indices == (0 - 2)..MaxIndex
Queries == {"", "q"}

SongNameOf(n) ==
  IF n <= 3 THEN <<"a">>
  ELSE IF n = 4 THEN <<"b", " ", "c">>
  ELSE <<"b", "/", "c">>

ArtistNameOf(n) ==
  IF n = 2 THEN <<"y">>
  ELSE IF n <= 3 THEN <<"x">>
  ELSE <<"z">>

TrackOf(n) == [song_name |-> SongNameOf(n), artist_name |-> ArtistNameOf(n),
               download_link |-> n]

Catalogue == [n \in 1..NumTracks |-> TrackOf(n)]

Reverse(s) == [k \in 1..Len(s) |-> s[Len(s) + 1 - k]]

(* What the provider may answer: the empty list, the first tracks of the   *)
(* catalogue, or the whole catalogue backwards.                            *)
ProviderResponses ==
  {SubSeq(Catalogue, 1, b) : b \in 0..NumTracks} \cup {Reverse(Catalogue)}

(* Which of the first tracks have a YouTube match: all, none, all but the  *)
(* first.                                                                  *)
(* what the second configured upstream, Last.fm, would answer to the query *)
LastFmResponses == {<<>>, SubSeq(Catalogue, 2, 2)}

AvailChoices == {1..DisplayLimit, {}, 2..DisplayLimit}

(* the size in MB of the media behind a download link: the first track's   *)
(* media is larger than the ceiling                                        *)
MediaSize(link) == IF link = 1 THEN 60 ELSE 5

(* the configured maximum size of a download, in MB *)
SizeCeiling == 50

None == <<>>
NoTrack == [song_name |-> <<>>, artist_name |-> <<>>, download_link |-> 0]
NoSel == [song |-> NoTrack, index |-> 0, key |-> 0, path |-> <<>>, tid |-> 0]
NoAudio == <<>>
NoThread == [running |-> FALSE, path |-> <<>>, link |-> 0]
NoEvent == [kind |-> "none", chat |-> 0, user |-> 0, query |-> "", data |-> <<>>,
            again |-> FALSE, old_len |-> 0, after_timeout |-> FALSE,
            label |-> <<>>]
NoOut == [texts |-> {}, audio |-> NoAudio, keyboard |-> <<>>, attempts |-> 0,
          started |-> 0, put |-> FALSE, get |-> FALSE, resp |-> <<>>,
          key |-> 0, old_len |-> 0, alt |-> <<>>, failed |-> 0,
          timeout |-> FALSE, old |-> <<>>]

FailureTexts == {"not_found", "dl_error", "dl_failed"}
Finished == {"idle", "done", "raised"}

----------------------------------------------------------------------------
(* Pure helpers *)

Min(a, b) == IF a < b THEN a ELSE b

(* no slice *)
TruncateNot(s) == s

(* song_data[:3] *)
Truncate(s) == SubSeq(s, 1, Min(Len(s), DisplayLimit))

(* the entries of s at the positions in keep, in order *)
RECURSIVE Filter(_, _)
Filter(s, keep) ==
  IF s = <<>> THEN <<>>
  ELSE LET rest == Filter(SubSeq(s, 1, Len(s) - 1), keep)
       IN IF Len(s) \in keep THEN Append(rest, s[Len(s)]) ELSE rest

(* int(s): the integer whose decimal text is s *)
IntRange == (0 - MaxIndex - 2)..(MaxIndex + 2)
ParseInt(s) == CHOOSE n \in IntRange : ToString(n) = s

(* list[i] as Python evaluates it: negative indices count from the end *)
IndexError(list, i) == i >= Len(list) \/ i < 0 - Len(list)
PyIndex(list, i) == IF i >= 0 THEN list[i + 1] ELSE list[Len(list) + i + 1]

(* str.replace(old, new) on a string held as a sequence of characters *)
Replace(s, old, new) == [k \in 1..Len(s) |-> IF s[k] = old THEN new ELSE s[k]]

(* main.py: os.path.join(tempfile.gettempdir(), f"{song_name}.mp3") *)
TempFilePath(song) == <<"tmp/">> \o song.song_name \o <<".mp3">>

(* main3.py: the cache file of a selection *)
CacheFileName(song, chat_id, index) ==
  Replace(Replace(song.song_name \o <<"_">> \o song.artist_name \o <<"_">>
                    \o <<ToString(chat_id)>> \o <<"_">> \o <<ToString(index)>>
                    \o <<".mp3">>,
                  "/", "_"),
          " ", "_")

CacheFilePath(song, chat_id, index) ==
  <<"cache/">> \o CacheFileName(song, chat_id, index)

(* a store that writes v over the old entry element by element *)
DictPutMix(d, k, v) ==
  [x \in DOMAIN d \cup {k} |->
     IF x # k THEN d[x]
     ELSE IF k \in DOMAIN d /\ Len(d[k]) > Len(v)
            THEN v \o SubSeq(d[k], Len(v) + 1, Len(d[k]))
            ELSE v]

(* d[k] = v on a dict *)
DictPut(d, k, v) == [x \in DOMAIN d \cup {k} |-> IF x = k THEN v ELSE d[x]]

(* os.path.exists *)
Exists(f, p) == p \in DOMAIN f
FileWrite(f, p, c) == [x \in DOMAIN f \cup {p} |-> IF x = p THEN c ELSE f[x]]
FileRemove(f, p) == [x \in DOMAIN f \ {p} |-> f[x]]

(* the inline keyboard built from the stored list *)
Keyboard(list, prefix) ==
  [k \in 1..Len(list) |->
     [label |-> <<list[k].song_name, list[k].artist_name>>,
      data |-> prefix \o <<"download", ToString(k - 1)>>]]

Reply(o, t) == [o EXCEPT !.texts = @ \cup {t}]

(* what the callback data of a pressed button may hold, split at "_" *)
CallbackDataMain ==
  {<<"download", ToString(i)>> : i \in Indices} \cup {<<"help">>}

CallbackDataMain3 ==
  {<<ToString(c), "download", ToString(i)>> : c \in Chats, i \in Indices}
    \cup {<<"download", "0">>}

(* the test with "index > len" *)
InvalidSelectionOffByOne(d, key, index) == key \notin DOMAIN d \/ index > Len(d[key])

(* the validity test of a selection: "key not in data or index >= len" *)
InvalidSelection(d, key, index) == key \notin DOMAIN d \/ index >= Len(d[key])

(* a successful search notes whose entry it replaced and how long that     *)
(* entry was; the event that follows it carries the note on                *)
NotePut(o, d, key) ==
  [o EXCEPT !.put = TRUE, !.key = key,
            !.old_len = IF key \in DOMAIN d THEN Len(d[key]) ELSE 0,
            !.old = IF key \in DOMAIN d THEN d[key] ELSE <<>>]

OldLen(o, key) == IF o.put /\ o.key = key THEN o.old_len ELSE 0

(* the event repeats the previous one, which ended with the audio sent *)
Again(e, o, kind, u, data) ==
  e.kind = kind /\ kind = "select" /\ e.user = u /\ e.data = data /\ o.audio # NoAudio

(* the event repeats the previous one, whose handler gave up waiting and   *)
(* whose download has ended with the file written since                    *)
AfterTimeout(e, o, res, data) ==
  e.kind = "select" /\ e.data = data /\ o.timeout /\ res = <<TRUE>>

(* the labels of the buttons carrying the data that the user can press in *)
(* the chat right after a search there: those of the keyboard the search   *)
(* has shown and, in main3.py, those of the keyboard shown for the entry   *)
(* it replaced, still on display in the group; <<>> stands for a callback  *)
(* query of any other origin                                               *)
PressLabels(e, o, chat, data) ==
  LET fresh == IF e.kind = "search" /\ e.chat = chat THEN o.keyboard ELSE <<>>
      stale == IF e.kind = "search" /\ e.chat = chat /\ o.put /\ prog = "main3"
                 THEN Keyboard(o.old, <<ToString(chat)>>) ELSE <<>>
      kb == fresh \o stale
  IN {kb[k].label : k \in {j \in 1..Len(kb) : kb[j].data = data}} \cup {<<>>}

----------------------------------------------------------------------------
Init ==
  /\ prog \in {"main", "main3"}
  /\ user_song_data = <<>>
  /\ group_song_data = <<>>
  /\ files = <<>>
  /\ threads = [t \in 1..MaxThreads |-> NoThread]
  /\ ev = NoEvent
  /\ pc = "idle"
  /\ retries = 0
  /\ sel = NoSel
  /\ result = <<>>
  /\ out = NoOut
  /\ events = 0

----------------------------------------------------------------------------
(* main.py *)

(* search_command up to the provider call *)
search_command_main(u, c, q) ==
  /\ prog = "main"
  /\ pc \in Finished
  /\ events < MaxEvents
  /\ events' = events + 1
  /\ ev' = [kind |-> "search", chat |-> c, user |-> u, query |-> q, data |-> <<>>,
            again |-> FALSE, old_len |-> 0, after_timeout |-> FALSE,
            label |-> <<>>]
  /\ IF q = ""
       THEN /\ out' = Reply(NoOut, "usage")
            /\ pc' = "done"
       ELSE /\ out' = Reply(NoOut, "searching")
            /\ pc' = "fetch"
  /\ sel' = NoSel
  /\ retries' = 0
  /\ result' = <<>>
  /\ UNCHANGED <<prog, user_song_data, group_song_data, files, threads>>

(* a fetch_song that answers with a placeholder track when it has found   *)
(* nothing                                                                 *)
fetch_song_mainPlaceholder(resp, fails) ==
  IF fails \/ resp = <<>> THEN <<NoTrack>> ELSE resp

(* fetch_song: the provider's list, or None (falsy, as the empty list is)   *)
(* on an empty list or any error                                           *)
fetch_song_main(resp, fails) ==
  IF fails \/ resp = <<>> THEN None ELSE resp

(* the provider call returns and search_command runs to its end *)
search_result_main(resp, fails, alt) ==
  /\ prog = "main"
  /\ pc = "fetch"
  /\ ev.kind = "search"
  /\ LET song_data == fetch_song_main(resp, fails)
         o == [out EXCEPT !.attempts = @ + 1, !.resp = resp, !.alt = alt]
     IN IF song_data # <<>>
          THEN /\ user_song_data' = DictPut(user_song_data, ev.user, Truncate(song_data))
               /\ out' = [Reply(NotePut(o, user_song_data, ev.user), "select") EXCEPT
                            !.keyboard = Keyboard(Truncate(song_data), <<>>)]
          ELSE /\ out' = Reply(o, "no_results")
               /\ UNCHANGED user_song_data
  /\ pc' = "done"
  /\ UNCHANGED <<prog, group_song_data, files, threads, ev, retries, sel, result, events>>

(* button_handler up to the media request *)
button_handler_main(u, c, data, label) ==
  /\ prog = "main"
  /\ pc \in Finished
  /\ events < MaxEvents
  /\ events' = events + 1
  /\ ev' = [kind |-> "select", chat |-> c, user |-> u, query |-> "", data |-> data,
            again |-> Again(ev, out, "select", u, data),
            old_len |-> OldLen(out, u), after_timeout |-> FALSE,
            label |-> label]
  /\ retries' = 0
  /\ result' = <<>>
  /\ IF ~(Len(data) >= 2 /\ data[1] = "download")
       THEN /\ out' = NoOut
            /\ pc' = "done"
            /\ sel' = NoSel
       ELSE LET user_id == u
                index == ParseInt(data[2])
            IN IF InvalidSelection(user_song_data, user_id, index)
                 THEN /\ out' = [Reply(NoOut, "not_found") EXCEPT !.get = TRUE]
                      /\ pc' = "done"
                      /\ sel' = NoSel
                 ELSE IF IndexError(user_song_data[user_id], index)
                 THEN /\ out' = [NoOut EXCEPT !.get = TRUE]
                      /\ pc' = "raised"
                      /\ sel' = NoSel
                 ELSE LET song == PyIndex(user_song_data[user_id], index)
                      IN /\ sel' = [song |-> song, index |-> index, key |-> user_id,
                                    path |-> TempFilePath(song), tid |-> 0]
                         /\ out' = [NoOut EXCEPT !.get = TRUE, !.started = 1]
                         /\ pc' = "download"
  /\ UNCHANGED <<prog, user_song_data, group_song_data, files, threads>>

(* the media request ends: refused, broken off while streaming, or complete *)
download_main(outcome) ==
  /\ prog = "main"
  /\ pc = "download"
  /\ CASE outcome = "http_error" ->
            /\ out' = [Reply(out, "dl_error") EXCEPT !.failed = @ + 1]
            /\ pc' = "done"
            /\ files' = files
       [] outcome = "stream_error" ->
            /\ files' = FileWrite(files, sel.path,
                                  [link |-> sel.song.download_link, complete |-> FALSE])
            /\ out' = [Reply(out, "dl_error") EXCEPT !.failed = @ + 1]
            /\ pc' = "done"
       [] outcome = "ok" ->
            /\ files' = FileWrite(files, sel.path,
                                  [link |-> sel.song.download_link, complete |-> TRUE])
            /\ pc' = "send"
            /\ out' = out
  /\ UNCHANGED <<prog, user_song_data, group_song_data, threads, ev, retries, sel, result, events>>

(* reply_audio, then os.remove; a failed upload lands in the except branch *)
send_main(sent) ==
  /\ prog = "main"
  /\ pc = "send"
  /\ IF sent
       THEN /\ out' = [out EXCEPT !.audio = <<[song |-> sel.song, media |-> files[sel.path]]>>]
            /\ files' = FileRemove(files, sel.path)
       ELSE /\ out' = Reply(out, "dl_error")
            /\ files' = files
  /\ pc' = "done"
  /\ UNCHANGED <<prog, user_song_data, group_song_data, threads, ev, retries, sel, result, events>>

NextMain ==
  \/ \E u \in Users, c \in Chats, q \in Queries : search_command_main(u, c, q)
  \/ \E resp \in ProviderResponses, fails \in BOOLEAN, alt \in LastFmResponses :
       search_result_main(resp, fails, alt)
  \/ \E u \in Users, c \in Chats, data \in CallbackDataMain :
       \E label \in PressLabels(ev, out, c, data) : button_handler_main(u, c, data, label)
  \/ \E outcome \in {"http_error", "stream_error", "ok"} : download_main(outcome)
  \/ \E sent \in BOOLEAN : send_main(sent)

----------------------------------------------------------------------------
(* main3.py *)

(* the wrapper of the retry decorator after an exception of the wrapped    *)
(* call: call again while retries < max_retries, else fall out of the loop *)
(* to "raise e", which raises (e is unbound there) an exception itself     *)
retry(r) == IF r < max_retries THEN "fetch" ELSE "raised"

(* search_command up to the provider call *)
search_command_main3(c, q) ==
  /\ prog = "main3"
  /\ pc \in Finished
  /\ events < MaxEvents
  /\ events' = events + 1
  /\ ev' = [kind |-> "search", chat |-> c, user |-> 0, query |-> q, data |-> <<>>,
            again |-> FALSE, old_len |-> 0, after_timeout |-> FALSE,
            label |-> <<>>]
  /\ LET chat_id == c
     IN IF chat_id # TARGET_GROUP_CHAT_ID
          THEN /\ out' = Reply(NoOut, "not_allowed")
               /\ pc' = "done"
          ELSE IF q = ""
          THEN /\ out' = Reply(NoOut, "usage")
               /\ pc' = "done"
          ELSE /\ out' = Reply(NoOut, "searching")
               /\ pc' = "fetch"
  /\ sel' = NoSel
  /\ retries' = 0
  /\ result' = <<>>
  /\ UNCHANGED <<prog, user_song_data, group_song_data, files, threads>>

(* fetch_song: the first three Deezer tracks that have a YouTube match, or *)
(* None when Deezer fails or finds nothing or no track has a match         *)
fetch_song_main3(resp, fails, avail) ==
  IF fails \/ resp = <<>> THEN None
  ELSE LET songs == Filter(Truncate(resp), avail)
       IN IF songs = <<>> THEN None ELSE songs

(* one call of fetch_song under the retry wrapper raises: an exception     *)
(* from outside the try block of fetch_song (deezer.Client()), the only    *)
(* kind the wrapper ever sees                                              *)
search_raise_main3 ==
  /\ prog = "main3"
  /\ pc = "fetch"
  /\ retries' = retries + 1
  /\ pc' = retry(retries + 1)
  /\ out' = [out EXCEPT !.attempts = @ + 1]
  /\ UNCHANGED <<prog, user_song_data, group_song_data, files, threads, ev, sel, result, events>>

(* one call of fetch_song returns and search_command runs to its end *)
search_result_main3(resp, fails, avail) ==
  /\ prog = "main3"
  /\ pc = "fetch"
  /\ LET song_data == fetch_song_main3(resp, fails, avail)
         chat_id == ev.chat
         o == [out EXCEPT !.attempts = @ + 1, !.resp = resp]
     IN IF song_data # <<>>
          THEN /\ group_song_data' = DictPut(group_song_data, chat_id, song_data)
               /\ out' = [Reply(NotePut(o, group_song_data, chat_id), "select") EXCEPT
                            !.keyboard = Keyboard(song_data, <<ToString(chat_id)>>)]
          ELSE /\ out' = Reply(o, "no_results")
               /\ UNCHANGED group_song_data
  /\ pc' = "done"
  /\ UNCHANGED <<prog, user_song_data, files, threads, ev, retries, sel, result, events>>

(* the lowest free slot of the thread table *)
FreeSlot(th) == CHOOSE t \in DOMAIN th : ~th[t].running /\ \A x \in 1..(t - 1) : th[x].running

(* button_handler up to thread.join, or up to the upload on a cache hit *)
button_handler_main3(c, data, label) ==
  /\ prog = "main3"
  /\ pc \in Finished
  /\ events < MaxEvents
  /\ events' = events + 1
  /\ ev' = [kind |-> "select", chat |-> c, user |-> 0, query |-> "", data |-> data,
            again |-> Again(ev, out, "select", 0, data),
            old_len |-> IF Len(data) = 3 THEN OldLen(out, ParseInt(data[1])) ELSE 0,
            after_timeout |-> AfterTimeout(ev, out, result, data),
            label |-> label]
  /\ retries' = 0
  /\ result' = <<>>
  /\ IF Len(data) # 3 \/ data[2] # "download"
       THEN /\ out' = NoOut
            /\ pc' = "done"
            /\ sel' = NoSel
            /\ threads' = threads
       ELSE LET chat_id == ParseInt(data[1])
                index == ParseInt(data[3])
            IN IF chat_id # TARGET_GROUP_CHAT_ID
                 THEN /\ out' = NoOut
                      /\ pc' = "done"
                      /\ sel' = NoSel
                      /\ threads' = threads
                 ELSE IF InvalidSelection(group_song_data, chat_id, index)
                 THEN /\ out' = [NoOut EXCEPT !.get = TRUE]
                      /\ pc' = "done"
                      /\ sel' = NoSel
                      /\ threads' = threads
                 ELSE IF IndexError(group_song_data[chat_id], index)
                 THEN /\ out' = [NoOut EXCEPT !.get = TRUE]
                      /\ pc' = "raised"
                      /\ sel' = NoSel
                      /\ threads' = threads
                 ELSE LET song == PyIndex(group_song_data[chat_id], index)
                          temp_file_path == CacheFilePath(song, chat_id, index)
                      IN IF Exists(files, temp_file_path)
                           THEN /\ sel' = [song |-> song, index |-> index, key |-> chat_id,
                                           path |-> temp_file_path, tid |-> 0]
                                /\ out' = [NoOut EXCEPT !.get = TRUE]
                                /\ pc' = "send"
                                /\ threads' = threads
                           ELSE /\ \E t \in DOMAIN threads : ~threads[t].running
                                /\ sel' = [song |-> song, index |-> index, key |-> chat_id,
                                           path |-> temp_file_path, tid |-> FreeSlot(threads)]
                                /\ threads' = [threads EXCEPT ![FreeSlot(threads)] =
                                                 [running |-> TRUE, path |-> temp_file_path,
                                                  link |-> song.download_link]]
                                /\ out' = [NoOut EXCEPT !.get = TRUE, !.started = 1]
                                /\ pc' = "join"
  /\ UNCHANGED <<prog, user_song_data, group_song_data, files>>

(* download_file: a download thread ends, with the file written or with    *)
(* an error, and appends to the result list of the handler that started it *)
download_file(t, ok) ==
  /\ prog = "main3"
  /\ threads[t].running
  /\ files' = IF ok THEN FileWrite(files, threads[t].path,
                                    [link |-> threads[t].link, complete |-> TRUE])
                    ELSE files
  /\ threads' = [threads EXCEPT ![t] = NoThread]
  /\ result' = IF sel.tid = t THEN <<ok>> ELSE result
  /\ UNCHANGED <<prog, user_song_data, group_song_data, ev, pc, retries, sel, out, events>>

(* thread.join returns because the thread has ended *)
join_return ==
  /\ prog = "main3"
  /\ pc = "join"
  /\ result # <<>>
  /\ IF ~result[1]
       THEN /\ out' = [Reply(out, "dl_failed") EXCEPT !.failed = @ + 1]
            /\ pc' = "done"
       ELSE /\ out' = out
            /\ pc' = "send"
  /\ UNCHANGED <<prog, user_song_data, group_song_data, files, threads, ev, retries,
                 sel, result, events>>

(* a timeout that stops the thread it has waited for *)
CancelAtTimeout(th, t) == [th EXCEPT ![t] = NoThread]

(* the thread table after the timeout of join: nothing stops the thread *)
KeepRunning(th, t) == th

(* thread.join returns after 180 s with the thread still running *)
join_timeout ==
  /\ prog = "main3"
  /\ pc = "join"
  /\ result = <<>>
  /\ out' = [Reply(out, "dl_failed") EXCEPT !.timeout = TRUE]
  /\ threads' = KeepRunning(threads, sel.tid)
  /\ pc' = "done"
  /\ UNCHANGED <<prog, user_song_data, group_song_data, files, ev, retries,
                 sel, result, events>>

(* a send that removes the file it has sent *)
RemoveAfterSend(f, p) == [x \in DOMAIN f \ {p} |-> f[x]]

(* the cache directory after reply_audio: the file stays where it is *)
KeepAfterSend(f, p) == f

(* the last block of button_handler: reply_audio if the file exists *)
send_main3(sent) ==
  /\ prog = "main3"
  /\ pc = "send"
  /\ IF Exists(files, sel.path)
       THEN IF sent
              THEN /\ out' = [out EXCEPT !.audio =
                                <<[song |-> sel.song, media |-> files[sel.path]]>>]
                   /\ files' = KeepAfterSend(files, sel.path)
                   /\ pc' = "done"
              ELSE /\ out' = out
                   /\ files' = files
                   /\ pc' = "raised"
       ELSE /\ out' = Reply(out, "dl_failed")
            /\ files' = files
            /\ pc' = "done"
  /\ UNCHANGED <<prog, user_song_data, group_song_data, threads, ev, retries,
                 sel, result, events>>

NextMain3 ==
  \/ \E c \in Chats, q \in Queries : search_command_main3(c, q)
  \/ search_raise_main3
  \/ \E resp \in ProviderResponses, fails \in BOOLEAN, avail \in AvailChoices :
       search_result_main3(resp, fails, avail)
  \/ \E c \in Chats, data \in CallbackDataMain3 :
       \E label \in PressLabels(ev, out, c, data) : button_handler_main3(c, data, label)
  \/ \E t \in 1..MaxThreads, ok \in BOOLEAN : download_file(t, ok)
  \/ join_return
  \/ join_timeout
  \/ \E sent \in BOOLEAN : send_main3(sent)

(* the application takes the next update from its queue and calls the      *)
(* handler registered for it                                               *)
Dispatch ==
  \/ \E u \in Users, c \in Chats, q \in Queries : search_command_main(u, c, q)
  \/ \E u \in Users, c \in Chats, data \in CallbackDataMain :
       \E label \in PressLabels(ev, out, c, data) : button_handler_main(u, c, data, label)
  \/ \E c \in Chats, q \in Queries : search_command_main3(c, q)
  \/ \E c \in Chats, data \in CallbackDataMain3 :
       \E label \in PressLabels(ev, out, c, data) : button_handler_main3(c, data, label)

Next == NextMain \/ NextMain3

Spec == Init /\ [][Next]_vars

(* main3.py alone, from its construction, followed for one event more     *)
InitGroup ==
  /\ prog = "main3"
  /\ user_song_data = <<>>
  /\ group_song_data = <<>>
  /\ files = <<>>
  /\ threads = [t \in 1..MaxThreads |-> NoThread]
  /\ ev = NoEvent
  /\ pc = "idle"
  /\ retries = 0
  /\ sel = NoSel
  /\ result = <<>>
  /\ out = NoOut
  /\ events = 0 - 1

SpecGroup == InitGroup /\ [][NextMain3]_vars

----------------------------------------------------------------------------
(* What the properties below read off a state *)

(* the result cache of the running program and the key of an event in it *)
Cache == IF prog = "main" THEN user_song_data ELSE group_song_data

(* the callback data names a download: "download_<i>" / "<chat>_download_<i>" *)
WellFormed ==
  IF prog = "main" THEN Len(ev.data) >= 2 /\ ev.data[1] = "download"
  ELSE Len(ev.data) = 3 /\ ev.data[2] = "download"

SelKey == IF prog = "main" THEN ev.user ELSE ParseInt(ev.data[1])
SelIndex == IF prog = "main" THEN ParseInt(ev.data[2]) ELSE ParseInt(ev.data[3])

(* the selection has no cached entry or its index is beyond the entry *)
Invalid == SelKey \notin DOMAIN Cache \/ SelIndex >= Len(Cache[SelKey])

(* a selection event that is a download request and, in main3.py, names    *)
(* the target group                                                        *)
IsSelection ==
  /\ ev.kind = "select"
  /\ WellFormed
  /\ prog = "main3" => SelKey = TARGET_GROUP_CHAT_ID

HandlerEnded == pc \in {"done", "raised"}
FailureSent == out.texts \cap FailureTexts # {}
AudioSent == out.audio # NoAudio

Range(s) == {s[k] : k \in 1..Len(s)}

(* list holds entries of resp, in the order resp has them *)
InOrderOf(list, resp) ==
  \E f \in [1..Len(list) -> 1..Len(resp)] :
    /\ \A k \in 1..Len(list) : list[k] = resp[f[k]]
    /\ \A j, k \in 1..Len(list) : j < k => f[j] < f[k]

(* the choice list shown is the list stored, button for button *)
ShownIsStored(kb, list) ==
  /\ Len(kb) = Len(list)
  /\ \A k \in 1..Len(kb) :
       /\ kb[k].label = <<list[k].song_name, list[k].artist_name>>
       /\ kb[k].data[Len(kb[k].data)] = ToString(k - 1)

----------------------------------------------------------------------------
(* C1  Cache overwrite.  After a successful search the cache entry of the  *)
(* requester key is exactly the new result (the list shown, made of tracks *)
(* of the new provider answer only), and a selection whose index is not    *)
(* below the length of the current entry ends at once: no download is      *)
(* started and no audio is sent, whatever the replaced entry was.          *)
C1_CacheOverwrite ==
  /\ (ev.kind = "search" /\ pc = "done" /\ out.put) =>
        /\ out.key \in DOMAIN Cache
        /\ ShownIsStored(out.keyboard, Cache[out.key])
        /\ Range(Cache[out.key]) \subseteq Range(out.resp)
  /\ (IsSelection /\ SelKey \in DOMAIN Cache /\ SelIndex >= Len(Cache[SelKey])) =>
        /\ pc = "done"
        /\ sel = NoSel
        /\ out.started = 0
        /\ ~AudioSent

(* a selection by an index valid for the replaced entry R1, not for R2 *)
C1_Witness ==
  /\ IsSelection
  /\ pc = "done"
  /\ SelKey \in DOMAIN Cache
  /\ Len(Cache[SelKey]) <= SelIndex
  /\ SelIndex < ev.old_len

(* C2 as stated: an invalid selection (no cached entry, or an index beyond *)
(* the cached result) always ends with a guidance or failure text sent,    *)
(* and the handler does not raise.                                         *)
C2_InvalidReported ==
  (IsSelection /\ HandlerEnded /\ Invalid) =>
     (FailureSent /\ pc = "done")

(* C2 amended: an invalid selection never raises and starts no download    *)
(* and sends no audio; main.py answers it with its failure text, main3.py  *)
(* drops it without any text.                                              *)
C2_InvalidHandled ==
  (IsSelection /\ Invalid) =>
     /\ pc = "done"
     /\ out.started = 0
     /\ ~AudioSent
     /\ prog = "main" => out.texts = {"not_found"}
     /\ prog = "main3" => out.texts = {}

C2_Witness ==
  /\ IsSelection
  /\ pc = "done"
  /\ prog = "main3"
  /\ SelKey \in DOMAIN Cache
  /\ SelIndex >= Len(Cache[SelKey])
  /\ out.texts = {}

(* C3  Result truncation.  Every cache entry is a non-empty list of at     *)
(* most 3 tracks, and the entry a search stores (which is the choice list  *)
(* it shows) holds tracks of the provider answer in the provider's order.  *)
C3_Truncation ==
  /\ \A k \in DOMAIN user_song_data :
       Len(user_song_data[k]) \in 1..DisplayLimit
  /\ \A k \in DOMAIN group_song_data :
       Len(group_song_data[k]) \in 1..DisplayLimit
  /\ Len(out.keyboard) <= DisplayLimit
  /\ (ev.kind = "search" /\ pc = "done" /\ out.put) =>
        /\ Len(out.keyboard) >= 1
        /\ ShownIsStored(out.keyboard, Cache[out.key])
        /\ InOrderOf(Cache[out.key], out.resp)

(* the provider returned more tracks than the display limit *)
C3_Witness ==
  /\ ev.kind = "search"
  /\ pc = "done"
  /\ out.put
  /\ Len(out.resp) > DisplayLimit
  /\ Len(Cache[out.key]) = DisplayLimit

(* C4 as stated: at most one download is in flight per cache file at any   *)
(* instant: no two running download threads write the same path.          *)
C4_OneDownloadPerKey ==
  \A t1, t2 \in DOMAIN threads :
    (threads[t1].running /\ threads[t2].running /\ threads[t1].path = threads[t2].path)
      => t1 = t2

(* C5 as stated: when the handling of a validated selection has ended,     *)
(* with the audio sent or with a failure, its local media file is gone.    *)
C5_NoOrphanedFile ==
  (ev.kind = "select" /\ HandlerEnded /\ sel # NoSel) => sel.path \notin DOMAIN files

(* C6 as stated: a selection that repeats the previous one, which was      *)
(* downloaded and delivered, starts no network download.                   *)
C6_NoSecondDownload ==
  (ev.kind = "select" /\ ev.again) => out.started = 0

(* C6 amended: in main3.py a selection that repeats the previous,          *)
(* delivered one finds the file in the cache directory and starts no       *)
(* download; in main.py, which removes the file after the send, it         *)
(* downloads again.                                                        *)
C6_Reselection ==
  (ev.kind = "select" /\ ev.again) =>
     /\ prog = "main3" =>
          /\ out.started = 0
          /\ pc \in {"send", "done", "raised"}
          /\ sel.path \in DOMAIN files
          /\ \A t \in DOMAIN threads : threads[t].running => sel.tid # t
     /\ prog = "main" => out.started = 1

C6_Witness ==
  /\ prog = "main3"
  /\ ev.kind = "select"
  /\ ev.again
  /\ pc = "done"
  /\ AudioSent

(* C7 as stated: a search that yields no tracks at any attempt has called  *)
(* the provider exactly max_retries times when it is given up.             *)
C7_RetryBound ==
  (ev.kind = "search" /\ HandlerEnded /\ out.attempts > 0 /\ ~out.put) =>
     out.attempts = max_retries

(* C8 as stated: an event whose origin is not the allowed chat causes no   *)
(* provider search, no cache write or read, no download and no audio.      *)
C8_AccessGate ==
  (ev.kind # "none"
     /\ ev.chat # (IF prog = "main" THEN ALLOWED_CHAT_ID ELSE TARGET_GROUP_CHAT_ID)) =>
     /\ out.attempts = 0
     /\ ~out.put
     /\ ~out.get
     /\ out.started = 0
     /\ ~AudioSent

(* C9 as stated: a validated selection whose handling has ended has had    *)
(* exactly one of the audio and a failure text sent.                       *)
C9_SelectionResolved ==
  (ev.kind = "select" /\ HandlerEnded /\ sel # NoSel) => (AudioSent # FailureSent)

(* C10 as stated: a non-empty query whose search has ended without tracks  *)
(* has had the "no results" text sent and no choice list shown.            *)
C10_NotFoundSurfaced ==
  (ev.kind = "search" /\ HandlerEnded /\ out.attempts > 0 /\ ~out.put) =>
     ("no_results" \in out.texts /\ out.keyboard = <<>>)

(* C11 as stated: a download larger than the size ceiling ends with a      *)
(* failure, is tried once only, and leaves no file, complete or partial,   *)
(* at the local path; so no file on disk is larger than the ceiling.       *)
C11_SizeCeiling ==
  /\ \A p \in DOMAIN files : MediaSize(files[p].link) <= SizeCeiling
  /\ (ev.kind = "select" /\ HandlerEnded /\ sel # NoSel
        /\ MediaSize(sel.song.download_link) > SizeCeiling) =>
       /\ FailureSent
       /\ ~AudioSent
       /\ out.started <= 1

(* C12 as stated: providers are asked in priority order and the first      *)
(* non-empty answer wins; a search whose first provider answers with the   *)
(* empty list while a second one has tracks ends with the second           *)
(* provider's tracks stored and shown.                                     *)
C12_Fallback ==
  (ev.kind = "search" /\ HandlerEnded /\ out.attempts > 0
     /\ out.resp = <<>> /\ out.alt # <<>>) =>
    /\ out.put
    /\ ev.user \in DOMAIN user_song_data
    /\ user_song_data[ev.user] = Truncate(out.alt)
    /\ Len(out.keyboard) = Len(Truncate(out.alt))

(* C13 as stated: a media download that fails is tried again, up to        *)
(* max_retries attempts in all, before the failure message is sent; so a   *)
(* selection that ends with the failure message after a failed download    *)
(* has made max_retries download attempts.                                 *)
C13_DownloadRetry ==
  (ev.kind = "select" /\ HandlerEnded /\ out.failed > 0 /\ FailureSent) =>
     out.started = max_retries

C15_NoPartialFile ==
  /\ \A p \in DOMAIN files : files[p].complete
  /\ AudioSent => out.audio[1].media.complete

(* C16 as stated: while a provider search or a media download of one       *)
(* requester is in progress, the next event, of any requester, can be      *)
(* taken up: no handler holds the dispatch loop during network I/O.        *)
C16_NonBlocking ==
  (pc \in {"fetch", "download", "join"} /\ events < MaxEvents) => ENABLED Dispatch

(* C17 as stated: a selection is served only when its index i satisfies    *)
(* 0 <= i < length of the current cached result; a selection by any other  *)
(* integer, the negative ones included, selects no track, starts no        *)
(* download and sends no audio.                                            *)
C17_IndexValidation ==
  (IsSelection /\ SelKey \in DOMAIN Cache
     /\ ~(0 <= SelIndex /\ SelIndex < Len(Cache[SelKey]))) =>
    /\ sel = NoSel
    /\ out.started = 0
    /\ ~AudioSent

(* C18 as stated: whenever audio is sent in answer to the press of a       *)
(* button, the track sent has the title and the artist shown on that       *)
(* button, also when another search of the same key or a press by another  *)
(* user came between the display and the press.                            *)
C18_DeliveredIsDisplayed ==
  (ev.kind = "select" /\ ev.label # <<>> /\ AudioSent) =>
     <<out.audio[1].song.song_name, out.audio[1].song.artist_name>> = ev.label

(* C19: a step changes the result cache only if it is the end of a search  *)
(* that was accepted (query text given, chat allowed in main3.py) and      *)
(* whose provider answer was not empty, and then only the entry of that    *)
(* search's key; so a rejected query, a search without results and every   *)
(* step of a selection leave the cache as it was.                          *)
C19_FailedSearchFrame ==
  [][(user_song_data' # user_song_data \/ group_song_data' # group_song_data) =>
       /\ ev.kind = "search"
       /\ pc = "fetch"
       /\ ev' = ev
       /\ ev.query # ""
       /\ prog = "main3" => ev.chat = TARGET_GROUP_CHAT_ID
       /\ out'.resp # <<>>
       /\ out'.put
       /\ "select" \in out'.texts
       /\ IF prog = "main"
            THEN /\ group_song_data' = group_song_data
                 /\ \A k \in DOMAIN user_song_data \ {ev.user} :
                      k \in DOMAIN user_song_data' /\ user_song_data'[k] = user_song_data[k]
            ELSE /\ user_song_data' = user_song_data
                 /\ \A k \in DOMAIN group_song_data \ {ev.chat} :
                      k \in DOMAIN group_song_data' /\ group_song_data'[k] = group_song_data[k]
    ]_vars

(* a search without results has ended for a key that has a cached entry *)
C19_Witness ==
  /\ ev.kind = "search"
  /\ pc = "done"
  /\ "no_results" \in out.texts
  /\ (IF prog = "main" THEN ev.user ELSE ev.chat) \in DOMAIN Cache

(* C20 as stated: selections of distinct tracks whose handling overlaps    *)
(* never use the same local file: while a selection that has started its   *)
(* own download is handled, no download in flight for another link writes  *)
(* to its path, and the audio it sends is the media of its own track.      *)
C20_NoInterference ==
  (ev.kind = "select" /\ sel # NoSel /\ sel.index >= 0 /\ out.started = 1) =>
    /\ \A t \in DOMAIN threads :
         (threads[t].running /\ threads[t].path = sel.path) =>
           threads[t].link = sel.song.download_link
    /\ AudioSent => out.audio[1].media.link = sel.song.download_link

====
